---- MODULE Spec2Model ----
(***************************************************************************)
(* Pipeline steps of dtlpy: ItemsGetStep and AnnotationsGetBatchStep wire   *)
(* named inputs and outputs through a shared dictionary (pipeline_dict).    *)
(* The model keeps Python's object identity for the kwargs dictionaries     *)
(* (a step holds a reference to a dict, `kwargs = self.kwargs` aliases it). *)
(* A second specification, SpecSdk, covers the SDK operations around the    *)
(* steps: get_arguments, Dpks.get, Dpks.pack and PackageInput.              *)
(***************************************************************************)
EXTENDS Integers, Sequences, FiniteSets, TLC

\* ------------------------------------------------------------------ bounds
MaxExec == 2
MaxItems == 2
MaxTuple == 2

VARIABLES
    pipeline_dict,  \* the shared context: key -> value, Absent when not a key
    steps,          \* the step instances: kind, inputs, kwargs (a dict id), args, outputs
    step_dict,      \* the declarative dictionary passed to the constructors
    dicts,          \* the kwargs dict objects: dict id -> name -> value
    nexec,          \* number of execute calls made
    last,           \* the latest execute call: its inputs and its outcome
    prev,           \* the execute call before it
    status,         \* executor: "idle", "running", "aborted" or "done"
    pipeline,       \* executor: the sequence of steps of the run
    pos,            \* executor: position of the next step to run
    ran,            \* executor: the steps the run has executed, in order
    written,        \* executor: key -> value written by the run's successful steps
    fs,             \* the file system Dpks.pack works on
    sdk             \* the latest SDK call outside the steps: arguments and outcome

step_vars == <<pipeline_dict, steps, step_dict, dicts, nexec, last, prev,
               status, pipeline, pos, ran, written>>
sdk_vars == <<fs, sdk>>
vars == <<pipeline_dict, steps, step_dict, dicts, nexec, last, prev,
          status, pipeline, pos, ran, written, fs, sdk>>

\* ------------------------------------------------------------------ values
\* Every Python value is a record [t, v]: an opaque object, a list or a
\* tuple of opaque objects, or the marker of a key that is not in a dict.
Obj(a) == [t |-> "obj", v |-> <<a>>]
List(s) == [t |-> "list", v |-> s]
Tup(s) == [t |-> "tuple", v |-> s]
Absent == [t |-> "absent", v |-> <<>>]

Keys == {"dataset", "item_id", "items", "item", "annotations"}
KwNames == {"dataset", "items", "item_id", "fetch"}
Steps == {"s1", "s2"}
Kinds == {"ItemsGet", "AnnotationsGetBatch"}

\* Opaque objects: a dataset, an item id, items, the results of the
\* collaborator calls, a fixed keyword argument value, raised errors.
ItemAtoms == <<"i1", "i2", "i3", "i4">>
GetAtoms == {"g1"}
TupleAtoms == <<"g2", "g3", "g4", "g5">>
AnnAtoms == {"a1", "a2"}
OpErrors == {"E1"}

EmptyDict == [k \in KwNames |-> Absent]
EmptyContext == [k \in Keys |-> Absent]
KeySet(d) == {k \in DOMAIN d : d[k] # Absent}

In(n, f) == [name |-> n, from |-> f]
Out(n) == [name |-> n]

NoErr == [type |-> "none", arg |-> ""]
Err(t, a) == [type |-> t, arg |-> a]

\* --------------------------------------------------------------- __init__
DefaultItemsGet ==
    [inputs |-> <<In("dataset", "dataset"), In("item_id", "item_id")>>,
     kwargs |-> EmptyDict,
     args |-> <<>>,
     outputs |-> <<Out("item")>>]

DefaultAnnotationsGetBatch ==
    [inputs |-> <<In("items", "items")>>,
     kwargs |-> EmptyDict,
     args |-> <<>>,
     outputs |-> <<Out("annotations")>>]

DefaultDescriptor(kind) ==
    IF kind = "ItemsGet" THEN DefaultItemsGet ELSE DefaultAnnotationsGetBatch

\* The reserved primary-object name of each step kind.
PrimaryName(kind) == IF kind = "ItemsGet" THEN "dataset" ELSE "items"

\* Declarative step dictionaries handed to the constructors.
Fetch == [EmptyDict EXCEPT !["fetch"] = Obj("f")]

StepDict(i, k, o) == [inputs |-> i, kwargs |-> k, args |-> <<>>, outputs |-> o]

StepDicts ==
    { StepDict(<<In("dataset", "dataset"), In("item_id", "item_id")>>, Fetch,
               <<Out("item"), Out("annotations")>>),
      StepDict(<<In("dataset", "dataset"), In("fetch", "item_id")>>, EmptyDict,
               <<Out("item_id")>>),
      StepDict(<<In("dataset", "dataset"), In("item_id", "item_id")>>, EmptyDict,
               <<Out("item"), Out("item")>>),
      StepDict(<<In("items", "items")>>, EmptyDict,
               <<Out("item"), Out("annotations")>>),
      StepDict(<<>>, EmptyDict, <<Out("item")>>),
      StepDict(<<In("dataset", "dataset"), In("items", "items")>>, Fetch, <<>>),
      StepDict(<<In("dataset", "dataset"), In("dataset", "item_id")>>, EmptyDict,
               <<Out("item")>>),
      StepDict(<<In("items", "items"), In("items", "dataset")>>, Fetch,
               <<Out("annotations")>>) }

\* A dict object is named by its owner: the step_dict's kwargs dict is
\* "step_dict", the literal {} created by a default constructor is the step.
DictIds == Steps \cup {"step_dict"}

\* __init__(step_dict): the step adopts the descriptor's objects by
\* reference, or builds fresh default objects.
Construct(s, kind, sd, fromDict) ==
    IF fromDict
    THEN [kind |-> kind, inputs |-> sd.inputs, kwargs |-> "step_dict",
          args |-> sd.args, outputs |-> sd.outputs]
    ELSE [kind |-> kind, inputs |-> DefaultDescriptor(kind).inputs, kwargs |-> s,
          args |-> DefaultDescriptor(kind).args,
          outputs |-> DefaultDescriptor(kind).outputs]

\* ---------------------------------------------------------------- execute
\* Mutant: only the first declared input is checked.
FirstMissing_FirstOnly(inputs, pd) ==
    IF Len(inputs) >= 1 /\ pd[inputs[1].from] = Absent THEN 1 ELSE 0

\* for input_arg in self.inputs: assert input_arg['from'] in pipeline_dict
\* The index of the first declared input whose `from` key is absent, or 0.
FirstMissing(inputs, pd) ==
    IF \E i \in 1..Len(inputs) : pd[inputs[i].from] = Absent
    THEN CHOOSE i \in 1..Len(inputs) :
            /\ pd[inputs[i].from] = Absent
            /\ \A j \in 1..(i - 1) : pd[inputs[j].from] # Absent
    ELSE 0

\* Mutant: the scan stops at the first input with the reserved name.
PrimaryFrom_FirstMatch(inputs, p, i) ==
    IF \E j \in i..Len(inputs) : inputs[j].name = p
    THEN <<inputs[CHOOSE j \in i..Len(inputs) :
                /\ inputs[j].name = p
                /\ \A h \in i..(j - 1) : inputs[h].name # p].from>>
    ELSE <<>>

\* [input_arg['from'] for input_arg in self.inputs if input_arg['name'] == p]
RECURSIVE PrimaryFrom(_, _, _)
PrimaryFrom(inputs, p, i) ==
    IF i > Len(inputs) THEN <<>>
    ELSE (IF inputs[i].name = p THEN <<inputs[i].from>> ELSE <<>>)
         \o PrimaryFrom(inputs, p, i + 1)

\* Mutant: the primary input is collected as a keyword argument too.
RECURSIVE CollectKwargs_NoSkip(_, _, _, _, _)
CollectKwargs_NoSkip(kwargs, inputs, pd, p, i) ==
    IF i > Len(inputs) THEN kwargs
    ELSE CollectKwargs_NoSkip(
            [kwargs EXCEPT ![inputs[i].name] = pd[inputs[i].from]],
            inputs, pd, p, i + 1)

\* kwargs = self.kwargs; for input_arg in self.inputs: skip the primary
\* name, else kwargs[input_arg['name']] = pipeline_dict[input_arg['from']]
RECURSIVE CollectKwargs(_, _, _, _, _)
CollectKwargs(kwargs, inputs, pd, p, i) ==
    IF i > Len(inputs) THEN kwargs
    ELSE CollectKwargs(
            IF inputs[i].name = p THEN kwargs
            ELSE [kwargs EXCEPT ![inputs[i].name] = pd[inputs[i].from]],
            inputs, pd, p, i + 1)

\* What a collaborator call does is the environment's choice: it raises
\* error e or returns val.
Raise(e) == [raise |-> TRUE, val |-> Absent, e |-> e]
Return(v) == [raise |-> FALSE, val |-> v, e |-> ""]

RECURSIVE SeqsUpTo(_, _)
SeqsUpTo(S, n) ==
    IF n = 0 THEN {<<>>}
    ELSE LET shorter == SeqsUpTo(S, n - 1)
         IN shorter \cup {Append(q, x) : q \in {r \in shorter : Len(r) = n - 1}, x \in S}

GetOutcomes ==
    {Raise(e) : e \in OpErrors}
    \cup {Return(Obj(a)) : a \in GetAtoms}
    \cup {Return(Tup(SubSeq(TupleAtoms, 1, n))) : n \in 0..MaxTuple}

ListOutcomes ==
    {Raise(e) : e \in OpErrors} \cup {Return(Obj(a)) : a \in AnnAtoms}

Call(obj, kwargs, out) == [obj |-> obj, kwargs |-> kwargs, out |-> out]

\* Mutant: a raising call is retried once and its error is replaced.
RunItemsGet_Retry(dataset, kwargs, env) ==
    IF dataset.t # "obj"
    THEN [calls |-> <<>>, err |-> Err("AttributeError", "items"), outputs |-> Absent]
    ELSE IF env[1].raise
         THEN [calls |-> <<Call(dataset, kwargs, env[1]), Call(dataset, kwargs, env[1])>>,
               err |-> Err("ValueError", "get failed"), outputs |-> Absent]
         ELSE [calls |-> <<Call(dataset, kwargs, env[1])>>,
               err |-> NoErr, outputs |-> env[1].val]

\* outputs = dataset.items.get(**kwargs)
RunItemsGet(dataset, kwargs, env) ==
    IF dataset.t # "obj"
    THEN [calls |-> <<>>, err |-> Err("AttributeError", "items"), outputs |-> Absent]
    ELSE [calls |-> <<Call(dataset, kwargs, env[1])>>,
          err |-> IF env[1].raise THEN Err("OpError", env[1].e) ELSE NoErr,
          outputs |-> env[1].val]

\* The index of the first item whose annotations.list() raises, or 0.
FirstRaise(env) ==
    IF \E i \in 1..Len(env) : env[i].raise
    THEN CHOOSE i \in 1..Len(env) : env[i].raise /\ \A j \in 1..(i - 1) : ~env[j].raise
    ELSE 0

\* Mutant: each result is inserted at the front of the output list.
RunAnnotationsGetBatch_Prepend(items, kwargs, env) ==
    IF items.t = "obj"
    THEN [calls |-> <<>>, err |-> Err("TypeError", "not iterable"), outputs |-> Absent]
    ELSE LET n == Len(items.v)
             k == FirstRaise(env)
             m == IF k = 0 THEN n ELSE k
         IN [calls |-> [i \in 1..m |-> Call(Obj(items.v[i]), EmptyDict, env[i])],
             err |-> IF k = 0 THEN NoErr ELSE Err("OpError", env[k].e),
             outputs |-> IF k = 0 THEN List([i \in 1..n |-> env[n + 1 - i].val.v[1]])
                         ELSE Absent]

\* outputs = list(); for item in items: outputs.append(item.annotations.list())
RunAnnotationsGetBatch(items, kwargs, env) ==
    IF items.t = "obj"
    THEN [calls |-> <<>>, err |-> Err("TypeError", "not iterable"), outputs |-> Absent]
    ELSE LET n == Len(items.v)
             k == FirstRaise(env)
             m == IF k = 0 THEN n ELSE k
         IN [calls |-> [i \in 1..m |-> Call(Obj(items.v[i]), EmptyDict, env[i])],
             err |-> IF k = 0 THEN NoErr ELSE Err("OpError", env[k].e),
             outputs |-> IF k = 0 THEN List([i \in 1..n |-> env[i].val.v[1]])
                         ELSE Absent]

RunStep(kind, primary, kwargs, env) ==
    IF kind = "ItemsGet" THEN RunItemsGet(primary, kwargs, env)
    ELSE RunAnnotationsGetBatch(primary, kwargs, env)

\* if not isinstance(outputs, tuple): outputs = (outputs,)
Normalize(outputs) ==
    IF outputs.t = "tuple"
    THEN [i \in 1..Len(outputs.v) |-> Obj(outputs.v[i])]
    ELSE <<outputs>>

\* Mutant: the outputs are saved into a new dictionary, which is returned.
RECURSIVE SaveOutputs_NewDict(_, _, _, _)
SaveOutputs_NewDict(pd, outputs, tuple, i) ==
    IF i > Len(outputs)
    THEN [pipeline_dict |-> [k \in Keys |->
                                IF \E j \in 1..Len(outputs) : outputs[j].name = k
                                THEN pd[k] ELSE Absent],
          err |-> NoErr]
    ELSE IF i > Len(tuple)
         THEN [pipeline_dict |-> pd, err |-> Err("IndexError", outputs[i].name)]
         ELSE SaveOutputs_NewDict([pd EXCEPT ![outputs[i].name] = tuple[i]],
                                  outputs, tuple, i + 1)

\* Mutant: a declared output is written only when its key is not yet there.
RECURSIVE SaveOutputs_SetDefault(_, _, _, _)
SaveOutputs_SetDefault(pd, outputs, tuple, i) ==
    IF i > Len(outputs) THEN [pipeline_dict |-> pd, err |-> NoErr]
    ELSE IF i > Len(tuple)
         THEN [pipeline_dict |-> pd, err |-> Err("IndexError", outputs[i].name)]
         ELSE SaveOutputs_SetDefault(
                 IF pd[outputs[i].name] = Absent
                 THEN [pd EXCEPT ![outputs[i].name] = tuple[i]] ELSE pd,
                 outputs, tuple, i + 1)

\* Mutant: every declared output receives the first element of the result.
RECURSIVE SaveOutputs_FirstElement(_, _, _, _)
SaveOutputs_FirstElement(pd, outputs, tuple, i) ==
    IF i > Len(outputs) THEN [pipeline_dict |-> pd, err |-> NoErr]
    ELSE IF i > Len(tuple)
         THEN [pipeline_dict |-> pd, err |-> Err("IndexError", outputs[i].name)]
         ELSE SaveOutputs_FirstElement([pd EXCEPT ![outputs[i].name] = tuple[1]],
                                       outputs, tuple, i + 1)

\* for i_output, output_arg in enumerate(self.outputs):
\*     pipeline_dict[output_arg['name']] = outputs[i_output]
\* Indexing past the end of the tuple raises IndexError after the earlier
\* writes have been made.
RECURSIVE SaveOutputs(_, _, _, _)
SaveOutputs(pd, outputs, tuple, i) ==
    IF i > Len(outputs) THEN [pipeline_dict |-> pd, err |-> NoErr]
    ELSE IF i > Len(tuple)
         THEN [pipeline_dict |-> pd, err |-> Err("IndexError", outputs[i].name)]
         ELSE SaveOutputs([pd EXCEPT ![outputs[i].name] = tuple[i]],
                          outputs, tuple, i + 1)

\* execute(self, pipeline_dict): the outcome of one call, given the dict
\* self.kwargs refers to and the environment's answers.
execute(step, pd, kwargs, env) ==
    LET missing == FirstMissing(step.inputs, pd)
        p == PrimaryName(step.kind)
        primary_from == PrimaryFrom(step.inputs, p, 1)
        failed(e) == [pipeline_dict |-> pd, kwargs |-> kwargs, err |-> e,
                      calls |-> <<>>, outputs |-> <<>>]
    IN IF missing # 0
       THEN failed(Err("AssertionError", step.inputs[missing].from))
       ELSE IF Len(primary_from) # 1
       THEN failed(Err("ValueError", p))
       ELSE LET collected == CollectKwargs(kwargs, step.inputs, pd, p, 1)
                run == RunStep(step.kind, pd[primary_from[1]], collected, env)
            IN IF run.err # NoErr
               THEN [pipeline_dict |-> pd, kwargs |-> collected, err |-> run.err,
                     calls |-> run.calls, outputs |-> <<>>]
               ELSE LET tuple == Normalize(run.outputs)
                        saved == SaveOutputs(pd, step.outputs, tuple, 1)
                    IN [pipeline_dict |-> saved.pipeline_dict, kwargs |-> collected,
                        err |-> saved.err, calls |-> run.calls, outputs |-> tuple]

\* The answers the environment gives to the collaborator calls of one
\* execute, in call order: none when execute fails before calling, one for
\* dataset.items.get, one per item for annotations.list up to the first
\* that raises.
Envs(step, pd) ==
    LET primary_from == PrimaryFrom(step.inputs, PrimaryName(step.kind), 1)
        reached == FirstMissing(step.inputs, pd) = 0 /\ Len(primary_from) = 1
        n == IF ~reached THEN 0
             ELSE IF step.kind = "ItemsGet"
                  THEN (IF pd[primary_from[1]].t = "obj" THEN 1 ELSE 0)
                  ELSE (IF pd[primary_from[1]].t = "list"
                        THEN Len(pd[primary_from[1]].v) ELSE 0)
        answers == IF step.kind = "ItemsGet" THEN GetOutcomes ELSE ListOutcomes
    IN { env \in SeqsUpTo(answers, n) :
            /\ \A i \in 1..(Len(env) - 1) : ~env[i].raise
            /\ Len(env) < n => (Len(env) >= 1 /\ env[Len(env)].raise) }

\* ---------------------------------------------------------- get_arguments
\* A signature is the sequence of its parameters; a parameter without a
\* default has the default inspect.Parameter.empty.
None == "None"
ParameterEmpty == "Parameter.empty"
Param(n, d) == [name |-> n, default |-> d]
Ops == {"Items.get", "Annotations.get", "Annotations.list"}
Signatures ==
    { <<Param("self", ParameterEmpty), Param("annotation_id", ParameterEmpty)>>,
      <<Param("self", ParameterEmpty), Param("filters", None), Param("fetch", "False")>> }

\* signature = inspect.signature(repositories.Items.get) /
\*             inspect.signature(repositories.Annotations.get)
InspectedOp(kind) == IF kind = "ItemsGet" THEN "Items.get" ELSE "Annotations.get"

\* The operation execute calls: dataset.items.get(**kwargs) /
\*                              item.annotations.list()
InvokedOp(kind) == IF kind = "ItemsGet" THEN "Items.get" ELSE "Annotations.list"

\* {k: v.default for k, v in signature.parameters.items()
\*  if v.default is not inspect.Parameter.empty}, as a set of <<k, default>>.
f_callargs(signature) ==
    { <<signature[i].name, signature[i].default>> :
        i \in { j \in 1..Len(signature) : signature[j].default # ParameterEmpty } }

get_arguments(kind, sigs) == f_callargs(sigs[InspectedOp(kind)])

\* ------------------------------------------------------------------- Dpks
PlatformException(error) == Err("PlatformException", error)

\* Every dpk the registry may hold, in the order the platform lists them.
Dpk(id, name) == [id |-> id, name |-> name]
Catalog == <<Dpk("d1", "a"), Dpk("d2", "a"), Dpk("d3", "b")>>
Registries == { {Catalog[i] : i \in 1..n} : n \in 0..Len(Catalog) }
DpkIds == {"d1", "d3"}
DpkNames == {"a", "b"}

\* self._client_api.gen_request: (success, response). The platform answers
\* when the transport works (ok) and fails a GET of an id it does not hold.
Request(req_type, path, json_req) ==
    [req_type |-> req_type, path |-> path, json_req |-> json_req]
Response(success, code, json) == [success |-> success, status |-> code, json |-> json]
gen_request(req, reg, ok) ==
    IF ~ok
    THEN Response(FALSE, "500", <<>>)
    ELSE IF req.req_type = "get"
         THEN LET found == SelectSeq(Catalog, LAMBDA d : d \in reg /\ d.id = req.path[2])
              IN IF found = <<>>
                 THEN Response(FALSE, "404", <<>>)
                 ELSE Response(TRUE, "200", found)
         ELSE Response(TRUE, "200",
                       SelectSeq(Catalog, LAMBDA d : d \in reg /\ d.name = req.json_req.values))

\* entities.Dpk.from_json(_json=response.json(), ..., is_fetched=False)
Dpk_from_json(json) == [entity |-> "Dpk", id |-> json.id, name |-> json.name]
NoDpk == [entity |-> None, id |-> None, name |-> None]

Outcome(ret, err, requests, responses) ==
    [ret |-> ret, err |-> err, requests |-> requests, responses |-> responses]

\* Dpks.list(filters) and Dpks._list: one POST app-registry/query; the page
\* holds the matching dpks.
list(filters, reg, ok) ==
    LET req == Request("post", <<"app-registry/query">>, filters)
        resp == gen_request(req, reg, ok)
    IN IF ~resp.success
       THEN Outcome(NoDpk, PlatformException(resp.status), <<req>>, <<resp>>)
       ELSE Outcome([items_count |-> Len(resp.json),
                     items |-> [i \in 1..Len(resp.json) |-> Dpk_from_json(resp.json[i])]],
                    NoErr, <<req>>, <<resp>>)

\* Mutant: the first match is returned whenever there is one.
get_by_name_FirstMatch(dpk_name, reg, ok) ==
    LET dpks == list([field |-> "name", values |-> dpk_name], reg, ok)
    IN IF dpks.err # NoErr
       THEN dpks
       ELSE IF dpks.ret.items_count = 0
            THEN [dpks EXCEPT !.ret = NoDpk, !.err = PlatformException("404")]
            ELSE [dpks EXCEPT !.ret = dpks.ret.items[1]]

\* Dpks.__get_by_name
get_by_name(dpk_name, reg, ok) ==
    LET dpks == list([field |-> "name", values |-> dpk_name], reg, ok)
    IN IF dpks.err # NoErr
       THEN dpks
       ELSE IF dpks.ret.items_count = 0
            THEN [dpks EXCEPT !.ret = NoDpk, !.err = PlatformException("404")]
            ELSE IF dpks.ret.items_count > 1
                 THEN [dpks EXCEPT !.ret = NoDpk, !.err = PlatformException("400")]
                 ELSE [dpks EXCEPT !.ret = dpks.ret.items[1]]

\* Mutant: a given name takes precedence over the id.
get_NameFirst(dpk_id, dpk_name, reg, ok) ==
    IF dpk_id = None /\ dpk_name = None
    THEN Outcome(NoDpk, PlatformException("400"), <<>>, <<>>)
    ELSE IF dpk_name = None
         THEN LET req == Request("get", <<"/app-registry/", dpk_id>>, <<>>)
                  resp == gen_request(req, reg, ok)
              IN IF ~resp.success
                 THEN Outcome(NoDpk, PlatformException(resp.status), <<req>>, <<resp>>)
                 ELSE Outcome(Dpk_from_json(resp.json[1]), NoErr, <<req>>, <<resp>>)
         ELSE get_by_name(dpk_name, reg, ok)

\* Dpks.get
get(dpk_id, dpk_name, reg, ok) ==
    IF dpk_id = None /\ dpk_name = None
    THEN Outcome(NoDpk, PlatformException("400"), <<>>, <<>>)
    ELSE IF dpk_id # None
         THEN LET req == Request("get", <<"/app-registry/", dpk_id>>, <<>>)
                  resp == gen_request(req, reg, ok)
              IN IF ~resp.success
                 THEN Outcome(NoDpk, PlatformException(resp.status), <<req>>, <<resp>>)
                 ELSE Outcome(Dpk_from_json(resp.json[1]), NoErr, <<req>>, <<resp>>)
         ELSE get_by_name(dpk_name, reg, ok)

\* -------------------------------------------------------------- Dpks.pack
\* The working directory holds an app.json without a version; "proj" is a
\* directory whose app.json has version 2.0.0, "empty" a directory without an
\* app.json, "file" a regular file and "missing" a path that does not exist.
Directories == {None, "proj", "empty", "file", "missing"}
PackNames == {None, "cwd"}
isdir(path) == path \in {"cwd", "proj", "empty"}
HasAppJson(path) == path \in {"cwd", "proj"}
app_json(path) == IF path = "proj" THEN [version |-> "2.0.0"] ELSE [version |-> None]
FsOp(op, path) == [op |-> op, path |-> path]
FileSystems == [dl_dir : BOOLEAN, dpks : {{}}]

NoFile == <<>>
PackOutcome(ret, err, f, ops) == [ret |-> ret, err |-> err, fs |-> f, fsops |-> ops]

\* Dpks.pack: the .dataloop directory is made and app.json is opened before
\* the directory test.
pack(directory, name, f, zipOk) ==
    LET f1 == [f EXCEPT !.dl_dir = TRUE]
        ops1 == IF f.dl_dir THEN <<>> ELSE <<FsOp("mkdir", <<"cwd", ".dataloop">>)>>
        dir == IF directory = None THEN "cwd" ELSE directory
        nm == IF name = None THEN dir ELSE name
    IN IF ~HasAppJson(dir)
       THEN PackOutcome(NoFile,
                        Err(IF dir = "file" THEN "NotADirectoryError" ELSE "FileNotFoundError",
                            dir),
                        f1, ops1)
       ELSE LET ops2 == Append(ops1, FsOp("read", <<dir, "app.json">>))
                version == IF app_json(dir).version = None
                           THEN "1.0.0" ELSE app_json(dir).version
                dpk_filename == <<nm, version>>
            IN IF ~isdir(dir)
               THEN PackOutcome(NoDpk, PlatformException("400"), f1, ops2)
               ELSE IF ~zipOk
                    THEN PackOutcome(NoFile, Err("ZipError", dir), f1, ops2)
                    ELSE PackOutcome(dpk_filename, NoErr,
                                     [f1 EXCEPT !.dpks = @ \cup {dpk_filename}],
                                     Append(ops2, FsOp("write", dpk_filename)))

\* ----------------------------------------------------------- PackageInput
INPUT_TYPES == {"Json", "Dataset", "Item", "Annotation"}
NotGiven == "NotGiven"
InputTypes == INPUT_TYPES \cup {"Other"}
InputNames == {None, "item", "dataset", "annotation", "config"}
IdKeys == {"dataset_id", "item_id", "annotation_id"}

\* A value: None, a dict with some of the id keys, or something that is not
\* a dict; serial says whether json.dumps accepts it.
Value(t, keys, serial) == [t |-> t, keys |-> keys, serial |-> serial]
NoneValue == Value("none", {}, TRUE)
ValueNotGiven == Value("notgiven", {}, TRUE)
InputValues ==
    {NoneValue, Value("str", {}, TRUE), Value("set", {}, FALSE),
     Value("dict", {"dataset_id"}, TRUE), Value("dict", {"dataset_id", "item_id"}, TRUE),
     Value("dict", IdKeys, TRUE)}

\* @name.default
set_name(type) ==
    CASE type = "Item" -> "item"
      [] type = "Dataset" -> "dataset"
      [] type = "Annotation" -> "annotation"
      [] OTHER -> "config"

\* @name.validator: TRUE when it does not raise.
check_name(type, value) ==
    ~ \/ type = "Item" /\ value # "item"
      \/ type = "Dataset" /\ value # "dataset"
      \/ type = "Annotation" /\ value # "annotation"

\* @type.validator: TRUE when it does not raise.
check_type(value) == value \in INPUT_TYPES

is_json_serializable(val) == val.serial

\* @value.validator: TRUE when it does not raise.
check_value(type, value) ==
    LET value_ok ==
          CASE type = "Json" -> is_json_serializable(value)
            [] type = "Dataset" -> value.t = "dict" /\ "dataset_id" \in value.keys
            [] type = "Item" -> value.t = "dict" /\ {"item_id", "dataset_id"} \subseteq value.keys
            [] type = "Annotation" -> value.t = "dict" /\ IdKeys \subseteq value.keys
            [] OTHER -> TRUE
    IN ~(~value_ok /\ value # NoneValue)

\* PackageInput(type, value, name): attrs fills the defaults of the arguments
\* not given, then runs the validators in the order of the attributes.
PackageInput(type, value, name) ==
    LET v == IF value = ValueNotGiven THEN NoneValue ELSE value
        n == IF name = NotGiven THEN set_name(type) ELSE name
    IN IF check_type(type) /\ check_value(type, v) /\ check_name(type, n)
       THEN [ret |-> [type |-> type, value |-> v, name |-> n], err |-> NoErr]
       ELSE [ret |-> [type |-> None, value |-> NoneValue, name |-> None],
             err |-> PlatformException("400")]

\* _json.get(key, None): None for a key that is not in _json.
json_get(x) == IF x = NotGiven THEN None ELSE x
json_get_value(x) == IF x = ValueNotGiven THEN NoneValue ELSE x

\* PackageInput.from_json
from_json(_json) ==
    PackageInput(json_get(_json.type), json_get_value(_json.value), json_get(_json.name))

\* ---------------------------------------------------------- Package.mockify
\* A package is the sequence of its modules; a module has a name, init_inputs
\* and functions; a function has a name and inputs; an input a name and a type.
Input(name, type) == [name |-> name, type |-> type]
Function(name, inputs) == [name |-> name, inputs |-> inputs]
Module(name, init_inputs, functions) ==
    [name |-> name, init_inputs |-> init_inputs, functions |-> functions]
M0 == Module("m0", <<>>, <<>>)
M1 == Module("m1", <<Input("cfg", "Json")>>,
             <<Function("f1", <<Input("item", "Item")>>),
               Function("f2", <<Input("annotation", "Annotation")>>)>>)
M2 == Module("m2", <<Input("ds", "Dataset")>>,
             <<Function("f2", <<Input("dataset", "Dataset"), Input("item", "Item")>>)>>)
Packages == {<<>>, <<M0>>, <<M1>>, <<M1, M2>>}
ModuleNames == {"m1", "m2"}
FunctionNames == {"f1", "f2"}

\* Package._mockify_input: a dict whose keys depend on the input type.
mockify_input(input_type) ==
    Value("dict",
          (IF input_type = "Dataset" THEN {"dataset_id"} ELSE {})
          \cup (IF input_type = "Item" THEN {"item_id", "dataset_id"} ELSE {})
          \cup (IF input_type = "Annotation" THEN IdKeys ELSE {}),
          TRUE)

\* mock['config'] as the set of its <<name, value>> pairs, mock['inputs'] as
\* the list of its {'name', 'value'} dicts.
Config(init_inputs) ==
    { <<init_inputs[i].name, mockify_input(init_inputs[i].type)>> : i \in 1..Len(init_inputs) }
MockInputs(inputs) ==
    [i \in 1..Len(inputs) |-> [name |-> inputs[i].name, value |-> mockify_input(inputs[i].type)]]
Mock(module_name, function_name, config, inputs) ==
    [module_name |-> module_name, function_name |-> function_name,
     config |-> config, inputs |-> inputs]
NoMock == Mock(None, None, {}, <<>>)
MockOutcome(mock, err) == [written |-> mock, err |-> err]

\* for module in self.modules: mock[...] = ... : every module overwrites the
\* four keys, so the mock holds what the last iteration assigned.
RECURSIVE MockLoop(_, _, _, _)
MockLoop(modules, func, mock, i) ==
    IF i > Len(modules)
    THEN mock
    ELSE MockLoop(modules, func,
                  Mock(modules[i].name, func.name,
                       Config(modules[i].init_inputs), MockInputs(func.inputs)),
                  i + 1)

\* Package.mockify(module_name, function_name): the mock written to
\* local_path/mock.json, or the exception raised.
mockify(modules, module_name, function_name) ==
    IF module_name = None /\ modules = <<>>
    THEN MockOutcome(NoMock, PlatformException("400"))
    ELSE LET mname == IF module_name = None THEN modules[1].name ELSE module_name
             found == SelectSeq(modules, LAMBDA m : m.name = mname)
         IN IF found = <<>>
            THEN MockOutcome(NoMock, PlatformException("404"))
            ELSE LET module == found[1]
                     funcs == IF function_name = None
                              THEN module.functions
                              ELSE SelectSeq(module.functions,
                                             LAMBDA f : f.name = function_name)
                 IN IF funcs = <<>>
                    THEN MockOutcome(NoMock,
                                     PlatformException(IF function_name = None
                                                       THEN "400" ELSE "404"))
                    ELSE MockOutcome(MockLoop(modules, funcs[1], NoMock, 1), NoErr)

\* ------------------------------------------------------------------- state
NoSdkCall == [op |-> "none"]
NoFs == [dl_dir |-> FALSE, dpks |-> {}]

NoCall ==
    [step |-> "none", before |-> EmptyContext, kwargs_before |-> EmptyDict,
     err |-> NoErr, calls |-> <<>>, outputs |-> <<>>]

InitialContexts ==
    { [EmptyContext EXCEPT !["dataset"] = d, !["item_id"] = i, !["items"] = l] :
        d \in {Absent, Obj("ds")},
        i \in {Absent, Obj("id")},
        l \in {Absent} \cup {List(SubSeq(ItemAtoms, 1, n)) : n \in {0, MaxItems}} }

\* The two steps are interchangeable: when only one is built from the
\* step_dict it is s1, and a step_dict that no step uses is the first one.
Constructions ==
    { c \in [kind : [Steps -> Kinds], fromDict : [Steps -> BOOLEAN], sd : StepDicts] :
        /\ c.fromDict["s2"] => c.fromDict["s1"]
        /\ ~c.fromDict["s1"] =>
              c.sd = StepDict(DefaultItemsGet.inputs, EmptyDict, DefaultItemsGet.outputs) }

Init ==
    /\ pipeline_dict \in InitialContexts
    /\ \E c \in Constructions :
        /\ step_dict = [c.sd EXCEPT !.kwargs = "step_dict"]
        /\ steps = [s \in Steps |-> Construct(s, c.kind[s], c.sd, c.fromDict[s])]
        /\ dicts = [d \in DictIds |-> IF d = "step_dict" THEN c.sd.kwargs ELSE EmptyDict]
    /\ nexec = 0
    /\ last = NoCall
    /\ prev = NoCall
    /\ status = "idle"
    /\ pipeline = <<>>
    /\ pos = 1
    /\ ran = <<>>
    /\ written = EmptyContext
    /\ fs = NoFs
    /\ sdk = NoSdkCall

\* One call of steps[s].execute(pipeline_dict): the context and the dict that
\* self.kwargs refers to are mutated in place.
Execute(s, env) ==
    LET r == execute(steps[s], pipeline_dict, dicts[steps[s].kwargs], env)
    IN /\ pipeline_dict' = r.pipeline_dict
       /\ dicts' = [dicts EXCEPT ![steps[s].kwargs] = r.kwargs]
       /\ nexec' = nexec + 1
       /\ prev' = last
       /\ last' = [step |-> s, before |-> pipeline_dict,
                   kwargs_before |-> dicts[steps[s].kwargs],
                   err |-> r.err, calls |-> r.calls, outputs |-> r.outputs]
       /\ UNCHANGED <<steps, step_dict>>

\* The caller executes a step directly.
CallExecute(s, env) ==
    /\ status = "idle"
    /\ nexec < MaxExec
    /\ Execute(s, env)
    /\ UNCHANGED <<status, pipeline, pos, ran, written>>
    /\ UNCHANGED sdk_vars

\* Executor: a run of an ordered sequence of steps against the context; the
\* run owns the context from the start, no step is called directly before it.
Pipelines == {<<a>> : a \in Steps} \cup {<<a, b>> : a, b \in Steps}

StartRun(p) ==
    /\ status = "idle"
    /\ nexec = 0
    /\ Len(p) <= MaxExec
    /\ status' = "running"
    /\ pipeline' = p
    /\ pos' = 1
    /\ ran' = <<>>
    /\ written' = EmptyContext
    /\ UNCHANGED <<pipeline_dict, steps, step_dict, dicts, nexec, last, prev>>
    /\ UNCHANGED sdk_vars

\* The keys a successful execute wrote, with the values it wrote.
Written(w, step, pd) ==
    [k \in Keys |-> IF \E i \in 1..Len(step.outputs) : step.outputs[i].name = k
                    THEN pd[k] ELSE w[k]]

\* Executor: run the next step; stop at the first failure, no rollback.
RunNext(env) ==
    /\ status = "running"
    /\ Execute(pipeline[pos], env)
    /\ ran' = Append(ran, pipeline[pos])
    /\ IF last'.err # NoErr
       THEN /\ status' = "aborted"
            /\ UNCHANGED <<pos, written>>
       ELSE /\ pos' = pos + 1
            /\ status' = IF pos = Len(pipeline) THEN "done" ELSE "running"
            /\ written' = Written(written, steps[pipeline[pos]], pipeline_dict')
    /\ UNCHANGED pipeline
    /\ UNCHANGED sdk_vars

Next ==
    \/ \E s \in Steps : \E env \in Envs(steps[s], pipeline_dict) : CallExecute(s, env)
    \/ \E p \in Pipelines : StartRun(p)
    \/ /\ status = "running"
       /\ \E env \in Envs(steps[pipeline[pos]], pipeline_dict) : RunNext(env)

Spec == Init /\ [][Next]_vars

\* ------------------------------------------------- the SDK around the steps
\* The steps are not used: their variables stay as constructed by default.
InitSdk ==
    /\ pipeline_dict = EmptyContext
    /\ step_dict = [DefaultItemsGet EXCEPT !.kwargs = "step_dict"]
    /\ steps = [s \in Steps |-> Construct(s, "ItemsGet", DefaultItemsGet, FALSE)]
    /\ dicts = [d \in DictIds |-> EmptyDict]
    /\ nexec = 0
    /\ last = NoCall
    /\ prev = NoCall
    /\ status = "idle"
    /\ pipeline = <<>>
    /\ pos = 1
    /\ ran = <<>>
    /\ written = EmptyContext
    /\ fs \in FileSystems
    /\ sdk = NoSdkCall

\* ItemsGetStep.get_arguments() / AnnotationsGetBatchStep.get_arguments(),
\* with the signatures the repositories module has.
GetArguments(kind, sigs) ==
    /\ sdk' = [op |-> "get_arguments", kind |-> kind, sigs |-> sigs,
               ret |-> get_arguments(kind, sigs)]
    /\ UNCHANGED fs
    /\ UNCHANGED step_vars

\* dpks.get(dpk_id, dpk_name) against a registry holding reg.
DpksGet(dpk_id, dpk_name, reg, ok) ==
    LET r == get(dpk_id, dpk_name, reg, ok)
    IN /\ sdk' = [op |-> "get", dpk_id |-> dpk_id, dpk_name |-> dpk_name, registry |-> reg,
                  ret |-> r.ret, err |-> r.err,
                  requests |-> r.requests, responses |-> r.responses]
       /\ UNCHANGED fs
       /\ UNCHANGED step_vars

\* dpks.pack(directory, name)
DpksPack(directory, name, zipOk) ==
    LET r == pack(directory, name, fs, zipOk)
    IN /\ fs' = r.fs
       /\ sdk' = [op |-> "pack", directory |-> directory, name |-> name, before |-> fs,
                  ret |-> r.ret, err |-> r.err, fsops |-> r.fsops]
       /\ UNCHANGED step_vars

\* PackageInput(type=..., value=..., name=...); name may be left out.
NewPackageInput(type, value, name) ==
    LET r == PackageInput(type, value, name)
    IN /\ sdk' = [op |-> "PackageInput", type |-> type, value |-> value, name |-> name,
                  ret |-> r.ret, err |-> r.err]
       /\ UNCHANGED fs
       /\ UNCHANGED step_vars

\* PackageInput.from_json(_json); any key may be missing from _json.
FromJson(_json) ==
    LET r == from_json(_json)
    IN /\ sdk' = [op |-> "from_json", type |-> _json.type, value |-> _json.value,
                  name |-> _json.name, ret |-> r.ret, err |-> r.err]
       /\ UNCHANGED fs
       /\ UNCHANGED step_vars

\* package.mockify(module_name=..., function_name=...) on a package with the
\* given modules.
Mockify(modules, module_name, function_name) ==
    LET r == mockify(modules, module_name, function_name)
    IN /\ sdk' = [op |-> "mockify", modules |-> modules, module_name |-> module_name,
                  function_name |-> function_name, written |-> r.written, err |-> r.err]
       /\ UNCHANGED fs
       /\ UNCHANGED step_vars

NextSdk ==
    \/ \E modules \in Packages : \E module_name \in ModuleNames \cup {None} :
          \E function_name \in FunctionNames \cup {None} :
              Mockify(modules, module_name, function_name)
    \/ \E kind \in Kinds : \E sigs \in [Ops -> Signatures] : GetArguments(kind, sigs)
    \/ \E dpk_id \in DpkIds \cup {None} : \E dpk_name \in DpkNames \cup {None} :
          \E reg \in Registries : \E ok \in BOOLEAN : DpksGet(dpk_id, dpk_name, reg, ok)
    \/ \E directory \in Directories : \E name \in PackNames : \E zipOk \in BOOLEAN :
          DpksPack(directory, name, zipOk)
    \/ \E type \in InputTypes : \E value \in InputValues :
          \E name \in InputNames \cup {NotGiven} : NewPackageInput(type, value, name)
    \/ \E _json \in [type : InputTypes \cup {NotGiven},
                     value : InputValues \cup {ValueNotGiven},
                     name : InputNames \cup {NotGiven}] : FromJson(_json)

SpecSdk == InitSdk /\ [][NextSdk]_vars

\* ================================================================= claims
\* The latest execute call, its step and what the step declares.
Called == last.step # "none"
LastStep == steps[last.step]
LastInputs == LastStep.inputs
LastOutputs == LastStep.outputs
Succeeded == Called /\ last.err = NoErr
Failed == Called /\ last.err # NoErr
OutputNames(step) == {step.outputs[i].name : i \in 1..Len(step.outputs)}
InputFroms(step) == {step.inputs[i].from : i \in 1..Len(step.inputs)}
SomeInputMissing ==
    \E i \in 1..Len(LastInputs) : last.before[LastInputs[i].from] = Absent
PrimaryCount ==
    Cardinality({i \in 1..Len(LastInputs) :
                    LastInputs[i].name = PrimaryName(LastStep.kind)})

\* C1: if a declared input's `from` key is absent from the context, execute
\* fails with the missing-input error naming an absent `from` key, no
\* collaborator call is made and the context is exactly as before the call.
C1_MissingInputFailsCleanly ==
    (Called /\ SomeInputMissing) =>
        /\ last.err.type = "AssertionError"
        /\ last.err.arg \in InputFroms(LastStep)
        /\ last.before[last.err.arg] = Absent
        /\ last.calls = <<>>
        /\ pipeline_dict = last.before

\* C1 witness: a step with a present and an absent input key was executed
\* against a non-empty context.
C1_Witness ==
    /\ Called
    /\ SomeInputMissing
    /\ \E i \in 1..Len(LastInputs) : last.before[LastInputs[i].from] # Absent
    /\ last.err.type = "AssertionError"

\* C2 (as stated): with zero or two-or-more inputs named as the reserved
\* primary name, execute fails with ValueError whatever the context holds,
\* without a collaborator call and without writing to the context.
C2_Original ==
    (Called /\ PrimaryCount # 1) =>
        /\ last.err.type = "ValueError"
        /\ last.calls = <<>>
        /\ pipeline_dict = last.before

\* C2 (amended): with zero or two-or-more inputs named as the reserved
\* primary name and every declared `from` key present in the context,
\* execute fails with ValueError; if a `from` key is absent the missing-input
\* error is raised instead; in both cases no collaborator call is made and
\* the context is not written.
C2_AmbiguousPrimaryFails ==
    (Called /\ PrimaryCount # 1) =>
        /\ last.err.type = IF SomeInputMissing THEN "AssertionError" ELSE "ValueError"
        /\ last.calls = <<>>
        /\ pipeline_dict = last.before

\* C2 witness: a step with two primary inputs, all present, was executed.
C2_Witness ==
    /\ Called
    /\ PrimaryCount >= 2
    /\ ~SomeInputMissing
    /\ last.err.type = "ValueError"

\* C3 (as stated): a successful execution adds exactly N keys, the N declared
\* output names, and the i-th name holds the i-th element of the result.
C3_Original ==
    Succeeded =>
        /\ KeySet(pipeline_dict) \ KeySet(last.before) = OutputNames(LastStep)
        /\ Cardinality(KeySet(pipeline_dict) \ KeySet(last.before)) = Len(LastOutputs)
        /\ \A i \in 1..Len(LastOutputs) :
              pipeline_dict[LastOutputs[i].name] = last.outputs[i]

\* C3 (amended): after a successful execution the key set is the key set
\* before the call plus the declared output names (N new keys only when the
\* names are distinct and none was a key before), and the i-th declared
\* output name holds the i-th element of the normalized result unless a
\* later declared output has the same name.
C3_OutputsWritten ==
    Succeeded =>
        /\ KeySet(pipeline_dict) = KeySet(last.before) \cup OutputNames(LastStep)
        /\ \A i \in 1..Len(LastOutputs) :
              (\A j \in (i + 1)..Len(LastOutputs) :
                    LastOutputs[j].name # LastOutputs[i].name)
              => pipeline_dict[LastOutputs[i].name] = last.outputs[i]

\* C3 witness: a step with two distinct declared outputs succeeded and both
\* keys are new.
C3_Witness ==
    /\ Succeeded
    /\ Len(LastOutputs) = 2
    /\ LastOutputs[1].name # LastOutputs[2].name
    /\ \A i \in 1..2 : last.before[LastOutputs[i].name] = Absent
    /\ last.outputs[1] # last.outputs[2]

\* C4 (as stated): when execute ends in an error, none of the step's declared
\* output keys has been written or changed.
C4_Original ==
    Failed =>
        \A i \in 1..Len(LastOutputs) :
            pipeline_dict[LastOutputs[i].name] = last.before[LastOutputs[i].name]

\* C5 (as stated): a run executes the steps left to right and stops at the
\* first failing step, and every key written by the run's successful steps
\* still holds the value written by the latest successful step that wrote it.
C5_Original ==
    status # "idle" =>
        /\ Len(ran) <= Len(pipeline)
        /\ ran = SubSeq(pipeline, 1, Len(ran))
        /\ status = "running" => Len(ran) = pos - 1
        /\ status = "done" => Len(ran) = Len(pipeline)
        /\ status = "aborted" => (Len(ran) = pos /\ last.err # NoErr)
        /\ \A k \in Keys : written[k] # Absent => pipeline_dict[k] = written[k]

\* C6 (as stated): after any execute call the step's kwargs are what they
\* were before the call; nothing collected from the context stays in them.
C6_Original ==
    Called => dicts[LastStep.kwargs] = last.kwargs_before

\* Two successive successful executions of the same step, the second against
\* the context the first produced.
Rerun ==
    /\ Called
    /\ prev.step = last.step
    /\ prev.err = NoErr
    /\ last.err = NoErr

\* The collaborator behaved as a function of its arguments over the calls of
\* both executions.
BothCalls == prev.calls \o last.calls
Deterministic ==
    \A a, b \in 1..Len(BothCalls) :
        (BothCalls[a].obj = BothCalls[b].obj /\ BothCalls[a].kwargs = BothCalls[b].kwargs)
        => BothCalls[a].out = BothCalls[b].out

RerunOverwrites ==
    /\ KeySet(pipeline_dict) = KeySet(last.before)
    /\ \A k \in OutputNames(LastStep) :
          \E i \in 1..Len(LastOutputs) :
              LastOutputs[i].name = k /\ pipeline_dict[k] = last.outputs[i]

\* C7 (as stated): a second run of a step keeps the key set, overwrites each
\* declared output key with the freshly computed value, and with a
\* deterministic collaborator leaves the context equal to that of one run.
C7_Original ==
    Rerun =>
        /\ RerunOverwrites
        /\ Deterministic => pipeline_dict = last.before

\* C7 (amended): a second run of a step keeps the key set and overwrites
\* each declared output key with the freshly computed value; with a
\* deterministic collaborator the context after two runs equals the context
\* after one run provided no declared output name is the `from` key of a
\* declared input.
C7_RerunIdempotent ==
    Rerun =>
        /\ RerunOverwrites
        /\ (Deterministic /\ OutputNames(LastStep) \cap InputFroms(LastStep) = {})
              => pipeline_dict = last.before

\* C7 witness: a step was run twice with success, the collaborator answered
\* differently the second time and the output key holds the new value.
C7_Witness ==
    /\ Rerun
    /\ Len(LastOutputs) >= 1
    /\ OutputNames(LastStep) \cap InputFroms(LastStep) = {}
    /\ last.outputs # prev.outputs
    /\ pipeline_dict # last.before

\* C8 (as stated): whenever execute succeeds, the length of the normalized
\* result equals the number of declared outputs.
C8_Original ==
    Succeeded => Len(last.outputs) = Len(LastOutputs)

\* C9: an error raised by the collaborator call is the error execute fails
\* with, and the call that raised is the last one made: dataset.items.get is
\* called at most once per execute, annotations.list once per item, in item
\* order, up to the first item whose call raises.
C9_ErrorPropagates ==
    Called =>
        /\ \A i \in 1..Len(last.calls) :
              last.calls[i].out.raise =>
                  /\ i = Len(last.calls)
                  /\ last.err = Err("OpError", last.calls[i].out.e)
                  /\ pipeline_dict = last.before
        /\ (last.err = NoErr /\ Len(last.calls) > 0) =>
              ~last.calls[Len(last.calls)].out.raise
        /\ LastStep.kind = "ItemsGet" => Len(last.calls) <= 1
        /\ (LastStep.kind = "AnnotationsGetBatch" /\ Len(last.calls) > 0) =>
              \A j \in 1..Len(LastInputs) :
                  LastInputs[j].name = "items" =>
                      /\ Len(last.calls) <= Len(last.before[LastInputs[j].from].v)
                      /\ \A i \in 1..Len(last.calls) :
                            last.calls[i].obj = Obj(last.before[LastInputs[j].from].v[i])

\* C9 witness: annotations.list raised on the second item, or
\* dataset.items.get raised.
C9_Witness ==
    /\ Called
    /\ Len(last.calls) >= 1
    /\ last.calls[Len(last.calls)].out.raise
    /\ last.err.type = "OpError"

\* The last declared input named n.
LastInputNamed(n) ==
    CHOOSE j \in 1..Len(LastInputs) :
        /\ LastInputs[j].name = n
        /\ \A h \in (j + 1)..Len(LastInputs) : LastInputs[h].name # n

\* The step of the latest call was built without a step_dict.
LastIsDefault == LastStep.kwargs = last.step

C11_AnnotationsInItemOrder ==
    (Succeeded /\ LastStep.kind = "AnnotationsGetBatch" /\ LastIsDefault) =>
        /\ pipeline_dict["annotations"].t = "list"
        /\ Len(pipeline_dict["annotations"].v) = Len(last.before["items"].v)
        /\ Len(last.calls) = Len(last.before["items"].v)
        /\ \A i \in 1..Len(last.before["items"].v) :
              /\ last.calls[i].obj = Obj(last.before["items"].v[i])
              /\ pipeline_dict["annotations"].v[i] = last.calls[i].out.val.v[1]

\* C11 witness: the default step succeeded on two items whose annotation
\* lists differ.
C11_Witness ==
    /\ Succeeded
    /\ LastStep.kind = "AnnotationsGetBatch"
    /\ LastIsDefault
    /\ Len(last.before["items"].v) = 2
    /\ pipeline_dict["annotations"].v[1] # pipeline_dict["annotations"].v[2]

\* C12 (as stated): AnnotationsGetBatchStep passes the collected keyword
\* arguments (self.kwargs and the non-primary inputs) to every per-item
\* annotations.list call.
C12_Original ==
    (Called /\ LastStep.kind = "AnnotationsGetBatch") =>
        \A i \in 1..Len(last.calls) :
            last.calls[i].kwargs = dicts[LastStep.kwargs]

\* C13: a successful execute leaves every key that is not a declared output
\* name with the value it had and removes no key; the context returned is
\* the context given, with the outputs written into it.
C13_FrameOfExecute ==
    Succeeded =>
        /\ \A k \in Keys \ OutputNames(LastStep) : pipeline_dict[k] = last.before[k]
        /\ KeySet(last.before) \subseteq KeySet(pipeline_dict)
        /\ \A k \in OutputNames(LastStep) :
              \E i \in 1..Len(LastOutputs) :
                  LastOutputs[i].name = k /\ pipeline_dict[k] = last.outputs[i]

\* C13 witness: a step succeeded, wrote an output and the context holds keys
\* that are not outputs of the step.
C13_Witness ==
    /\ Succeeded
    /\ OutputNames(LastStep) # {}
    /\ KeySet(last.before) \ OutputNames(LastStep) # {}
    /\ pipeline_dict # last.before

\* C17 (as stated): executing one step changes neither the kwargs of the
\* other step nor the kwargs of the step_dict passed to a constructor.
C17_Original ==
    [][nexec' = nexec + 1 =>
          /\ \A s \in Steps \ {last'.step} :
                dicts'[steps[s].kwargs] = dicts[steps[s].kwargs]
          /\ dicts'["step_dict"] = dicts["step_dict"]
          /\ steps' = steps
          /\ step_dict' = step_dict]_vars

\* ------------------------------------------------------- claims on the SDK
\* C14 (as stated): get_arguments of a step kind returns exactly the
\* {name -> default} mapping of the defaulted parameters of the operation
\* that the same kind's execute invokes (items get / annotations list).
C14_Original ==
    sdk.op = "get_arguments" =>
        sdk.ret = f_callargs(sdk.sigs[InvokedOp(sdk.kind)])

\* C15: Dpks.get with neither identifier raises PlatformException 400 and
\* sends no request; with dpk_id given it sends exactly one GET on
\* /app-registry/{dpk_id}, raises PlatformException when the request fails
\* and otherwise returns the Dpk built from the response; the query by name
\* is sent only when dpk_id is None.
C15_GetRequiresIdentifier ==
    sdk.op = "get" =>
        /\ (sdk.dpk_id = None /\ sdk.dpk_name = None) =>
              /\ sdk.err = PlatformException("400")
              /\ sdk.requests = <<>>
              /\ sdk.ret = NoDpk
        /\ sdk.dpk_id # None =>
              /\ sdk.requests = <<Request("get", <<"/app-registry/", sdk.dpk_id>>, <<>>)>>
              /\ Len(sdk.responses) = 1
              /\ ~sdk.responses[1].success =>
                    sdk.err.type = "PlatformException" /\ sdk.ret = NoDpk
              /\ sdk.responses[1].success =>
                    /\ sdk.err = NoErr
                    /\ sdk.ret = Dpk_from_json(sdk.responses[1].json[1])
                    /\ sdk.ret.id = sdk.dpk_id
        /\ (\E i \in 1..Len(sdk.requests) : sdk.requests[i].req_type = "post") =>
              sdk.dpk_id = None

\* C15 witness: get was called with both an id and a name and returned the
\* dpk of that id, whose name is not the name given.
C15_Witness ==
    /\ sdk.op = "get"
    /\ sdk.dpk_id # None
    /\ sdk.dpk_name # None
    /\ sdk.err = NoErr
    /\ sdk.ret.id = sdk.dpk_id
    /\ sdk.ret.name # sdk.dpk_name

\* The dpks of the registry that have the name asked for.
Matches == {d \in sdk.registry : d.name = sdk.dpk_name}
ByName ==
    /\ sdk.op = "get"
    /\ sdk.dpk_id = None
    /\ sdk.dpk_name # None
    /\ Len(sdk.responses) = 1
    /\ sdk.responses[1].success

\* C18: the lookup by name returns a dpk iff the listing filtered by the
\* name has exactly one item, and then that item; with no item it raises
\* PlatformException 404, with more than one PlatformException 400, and in
\* both cases nothing is returned.
C18_NameMustBeUnambiguous ==
    ByName =>
        /\ sdk.ret # NoDpk <=> Cardinality(Matches) = 1
        /\ Cardinality(Matches) = 1 =>
              sdk.err = NoErr /\ \E d \in Matches : sdk.ret = Dpk_from_json(d)
        /\ Cardinality(Matches) = 0 => sdk.err = PlatformException("404")
        /\ Cardinality(Matches) > 1 => sdk.err = PlatformException("400")

\* C18 witness: the registry holds several dpks, one of them with the name
\* asked for, and the lookup returned it.
C18_Witness ==
    /\ ByName
    /\ Cardinality(sdk.registry) > 1
    /\ Cardinality(Matches) = 1
    /\ sdk.ret.name = sdk.dpk_name

\* C19 (as stated): pack with a directory that is not an existing directory
\* fails with PlatformException 400, creates no dpk file and neither reads
\* nor writes anything on the file system.
C19_Original ==
    (sdk.op = "pack" /\ sdk.directory # None /\ ~isdir(sdk.directory)) =>
        /\ sdk.err = PlatformException("400")
        /\ sdk.ret = NoFile
        /\ sdk.fsops = <<>>
        /\ fs = sdk.before

\* What C20 requires of a type, a name and a value.
NameFits(type, name) ==
    /\ type = "Item" => name = "item"
    /\ type = "Dataset" => name = "dataset"
    /\ type = "Annotation" => name = "annotation"
DefaultName(type) ==
    CASE type = "Item" -> "item"
      [] type = "Dataset" -> "dataset"
      [] type = "Annotation" -> "annotation"
      [] type = "Json" -> "config"
      [] OTHER -> None
HasShape(type, value) ==
    \/ value \in {NoneValue, ValueNotGiven}
    \/ type = "Json" /\ value.serial
    \/ type = "Dataset" /\ value.t = "dict" /\ "dataset_id" \in value.keys
    \/ type = "Item" /\ value.t = "dict" /\ {"item_id", "dataset_id"} \subseteq value.keys
    \/ type = "Annotation" /\ value.t = "dict" /\ IdKeys \subseteq value.keys
Constructed == sdk.op \in {"PackageInput", "from_json"}

\* C20 (as stated): a PackageInput constructed directly or through from_json
\* has a type of INPUT_TYPES, the name its type requires (the default name of
\* its type when no name was supplied) and a value that is None or has the
\* shape of its type; every other combination fails with PlatformException
\* 400.
C20_Original ==
    Constructed =>
        IF sdk.err = NoErr
        THEN /\ sdk.ret.type \in INPUT_TYPES
             /\ NameFits(sdk.ret.type, sdk.ret.name)
             /\ sdk.name = NotGiven => sdk.ret.name = DefaultName(sdk.ret.type)
             /\ HasShape(sdk.ret.type, sdk.ret.value)
        ELSE /\ sdk.err = PlatformException("400")
             /\ ~ /\ sdk.type \in INPUT_TYPES
                  /\ sdk.name = NotGiven \/ NameFits(sdk.type, sdk.name)
                  /\ HasShape(sdk.type, sdk.value)

\* The module and the function C21 says the mock describes.
Mockified == sdk.op = "mockify"
WantedModuleName ==
    IF sdk.module_name # None THEN sdk.module_name
    ELSE IF sdk.modules # <<>> THEN sdk.modules[1].name ELSE None
WantedModules == SelectSeq(sdk.modules, LAMBDA m : m.name = WantedModuleName)
WantedFunctions ==
    IF WantedModules = <<>> THEN <<>>
    ELSE IF sdk.function_name = None THEN WantedModules[1].functions
         ELSE SelectSeq(WantedModules[1].functions, LAMBDA f : f.name = sdk.function_name)

\* C21 (as stated): mockify writes a mock whose module_name is the requested
\* module (the first module when none is requested), whose function_name is
\* the requested function of that module (its first function when none is
\* requested) and whose config and inputs come from that module's init
\* inputs and that function's inputs; it raises PlatformException 400 when
\* the package has no modules or the module no functions, 404 when the
\* requested module or function does not exist, and then writes nothing.
C21_Original ==
    Mockified =>
        IF sdk.err = NoErr
        THEN /\ WantedFunctions # <<>>
             /\ sdk.written.module_name = WantedModuleName
             /\ sdk.written.function_name = WantedFunctions[1].name
             /\ sdk.written.config = Config(WantedModules[1].init_inputs)
             /\ sdk.written.inputs = MockInputs(WantedFunctions[1].inputs)
        ELSE /\ sdk.written = NoMock
             /\ WantedFunctions = <<>>
             /\ sdk.err \in {PlatformException("400"), PlatformException("404")}
             /\ sdk.err = PlatformException("400") =>
                   \/ sdk.modules = <<>>
                   \/ WantedModules # <<>> /\ WantedModules[1].functions = <<>>
             /\ sdk.err = PlatformException("404") =>
                   \/ sdk.module_name # None /\ WantedModules = <<>>
                   \/ sdk.function_name # None

====
